---- MODULE Spec2Model ----
(***************************************************************************)
(* Model of the fulfillment dashboard's cutoff / classification logic      *)
(* (src/src/App.jsx: getTileCounts, getEffectiveApprovalDate, isOverdue).  *)
(*                                                                         *)
(* Instants are JavaScript Date values: integer milliseconds, counted from *)
(* a base instant that is a Sunday 00:00:00.000 UTC.  A Date is modelled   *)
(* by its epoch value; the host-local field operations (new Date(y,m,d),   *)
(* setHours, setDate, getDay, parsing a string without a zone) go through  *)
(* the host's UTC offset, a fixed number of hours (no daylight saving).    *)
(* A date-only string 'YYYY-MM-DD' is modelled by its day number (days     *)
(* since the base Sunday).  An optional value is <<>> or <<v>>.            *)
(*                                                                         *)
(* The server side (src/api/orders.js and the cron handlers part_002 and   *)
(* part_003) works on the raw Shopify data; its strings are sequences of   *)
(* characters, so that lower-casing, splitting, trimming and substring     *)
(* search are computed.  The page and the handlers are exercised in        *)
(* separate specifications over the same variables.                        *)
(***************************************************************************)
EXTENDS Integers, Sequences, FiniteSets

VARIABLES
    upstream,        \* approved orders the /api/orders endpoint would return
    hostOffset,      \* UTC offset, in hours, of the host rendering the page
    now,             \* value of new Date() read by getTileCounts in the latest render
    filterNow,       \* value of new Date() read by isOverdue in the latest render
    approvedOrders,  \* React state: useState([])
    tileCounts,      \* result of getTileCounts() in the latest render
    tally,           \* per order, the increments its loop iteration made
    overdueFlags,    \* per order, isOverdue(o) in the latest render
    env,             \* process.env of the serverless functions
    shopify,         \* what the Shopify Admin API answers (REST orders, GraphQL pages)
    mailOk,          \* whether the mail API accepts a message
    cron,            \* outcome of the latest cron invocation
    api,             \* the /api/orders handler: its position, locals and response
    email            \* outcome of the latest /api/send-email request

appVars == <<upstream, hostOffset, now, filterNow, approvedOrders, tileCounts, tally, overdueFlags>>

vars == <<upstream, hostOffset, now, filterNow, approvedOrders, tileCounts, tally, overdueFlags,
          env, shopify, mailOk, cron, api, email>>

----------------------------------------------------------------------------
(* Bounds of the model *)

MaxDay == 2
MaxOrders == 2

----------------------------------------------------------------------------
(* Time arithmetic of JavaScript Date *)

Second == 1 * 1000
Minute == 60 * Second
Hour == 60 * Minute
Day == 24 * Hour

Null == <<>>
Some(v) == <<v>>
Val(opt) == opt[1]

\* time of day, in milliseconds
HMS(h, m, s) == h * Hour + m * Minute + s * Second

\* UTC offset of the 'Asia/Manila' time zone, in hours
ManilaOffset == 8

\* cutoff hours of the day
ProvincialCutoffHour == 12
MetroCutoffHour == 15

\* the time value of an Invalid Date (NaN), as new Date(undefined) or
\* new Date('garbage') gives: a value outside the instants of the model
InvalidDate == 0 - 2000000000

\* a < b on two Dates: false when either is an Invalid Date
dateLess(a, b) == a # InvalidDate /\ b # InvalidDate /\ a < b

\* d.toLocaleString('en-US', { timeZone: 'Asia/Manila' }): the Manila wall
\* clock of the instant, to the second (the text carries no milliseconds)
toLocaleStringManila(d) ==
    LET wallSec == (d + ManilaOffset * Hour) \div Second
    IN  [day |-> wallSec \div (Day \div Second), sec |-> wallSec % (Day \div Second)]

\* new Date(text) for a text without a zone: read as host-local time
parseLocal(text, ho) == text.day * Day + text.sec * Second - ho * Hour

\* new Date(d.toLocaleString('en-US', { timeZone: 'Asia/Manila' }))
\* (the text of an Invalid Date is 'Invalid Date', which parses to one again)
toPHT(d, ho) ==
    IF d = InvalidDate THEN InvalidDate ELSE parseLocal(toLocaleStringManila(d), ho)

\* host-local calendar day number of a Date
localDay(d, ho) == (d + ho * Hour) \div Day

\* new Date(d.getFullYear(), d.getMonth(), d.getDate())
dateOnly(d, ho) == localDay(d, ho) * Day - ho * Hour

\* d.setHours(h, 0, 0, 0)
setHours(d, h, ho) == localDay(d, ho) * Day + h * Hour - ho * Hour

\* d.setDate(d.getDate() - 1)
setDateMinus1_twoDays(d) == d - 2 * Day
setDateMinus1(d) == d - Day

\* d.getDay(): 0 = Sunday (day 0 of the model is a Sunday)
getDay(d, ho) == localDay(d, ho) % 7

\* new Date(dateString + 'T00:00:00'): host-local midnight of that day
parseDateMidnight(dayNumber, ho) == dayNumber * Day - ho * Hour

----------------------------------------------------------------------------
(* src/src/App.jsx *)

\* getEffectiveApprovalDate: the later of approved_at and created_at
getEffectiveApprovalDate_approvedFirst(order) ==
    IF order.approved_at # Null THEN Val(order.approved_at) ELSE order.created_at
getEffectiveApprovalDate(order) ==
    IF order.approved_at # Null /\ dateLess(order.created_at, Val(order.approved_at))
    THEN Val(order.approved_at)
    ELSE order.created_at

NoIncrement == [shipToday |-> 0, overdue |-> 0, scheduled |-> 0, newOrders |-> 0]

\* isProvincial ? today12NN : today3PM (and the same for yesterday's cutoffs)
selectCutoff_swapped(isProvincial, c12NN, c3PM) == IF isProvincial THEN c3PM ELSE c12NN
selectCutoff(isProvincial, c12NN, c3PM) == IF isProvincial THEN c12NN ELSE c3PM

\* approvedPHT < yesterdayCutoff, approvedPHT < todayCutoff
approvedBefore(approvedPHT, cutoff) == dateLess(approvedPHT, cutoff)

\* phtNow > todayCutoff
nowPastCutoff(phtNow, todayCutoff) == phtNow > todayCutoff

\* delivery date is past: overdue++; shipToday++
pastDeliveryIncrement_overdueOnly == [NoIncrement EXCEPT !.overdue = 1]
pastDeliveryIncrement == [NoIncrement EXCEPT !.overdue = 1, !.shipToday = 1]

\* delivery date is today: overdue++ when past the cutoff; shipToday++ always
todayDeliveryIncrement_exclusive(past) ==
    IF past THEN [NoIncrement EXCEPT !.overdue = 1] ELSE [NoIncrement EXCEPT !.shipToday = 1]
todayDeliveryIncrement(past) ==
    [NoIncrement EXCEPT !.overdue = IF past THEN 1 ELSE 0, !.shipToday = 1]

\* approved before yesterday's cutoff: overdue++; shipToday++
cutoffOverdueIncrement_overdueOnly == [NoIncrement EXCEPT !.overdue = 1]
cutoffOverdueIncrement == [NoIncrement EXCEPT !.overdue = 1, !.shipToday = 1]

\* getTileCounts: deliveryDate, deliveryDatePHT, deliveryDateOnly of a date string
deliveryDateOnlyOf(dateString, ho) ==
    LET deliveryDate == parseDateMidnight(dateString, ho)
        deliveryDatePHT == toPHT(deliveryDate, ho)
    IN  dateOnly(deliveryDatePHT, ho)

\* getTileCounts, loop body, branch "if (o.preferred_delivery_date)"
withDateIncrements(o, phtNow, ho) ==
    LET todayPHT == dateOnly(phtNow, ho)
        today12NN == setHours(phtNow, ProvincialCutoffHour, ho)
        today3PM == setHours(phtNow, MetroCutoffHour, ho)
        deliveryDateOnly == deliveryDateOnlyOf(Val(o.preferred_delivery_date), ho)
        isProvincial == (o.is_provincial = TRUE)
        todayCutoff == selectCutoff(isProvincial, today12NN, today3PM)
    IN  IF deliveryDateOnly < todayPHT
        THEN pastDeliveryIncrement
        ELSE IF deliveryDateOnly = todayPHT
        THEN todayDeliveryIncrement(nowPastCutoff(phtNow, todayCutoff))
        ELSE [NoIncrement EXCEPT !.scheduled = 1]

\* getTileCounts, loop body, branch "else" (no preferred delivery date)
withoutDateIncrements(o, phtNow, ho) ==
    LET yesterday12NN == setHours(setDateMinus1(phtNow), ProvincialCutoffHour, ho)
        yesterday3PM == setHours(setDateMinus1(phtNow), MetroCutoffHour, ho)
        today12NN == setHours(phtNow, ProvincialCutoffHour, ho)
        today3PM == setHours(phtNow, MetroCutoffHour, ho)
        ref == getEffectiveApprovalDate(o)
        approvedPHT == toPHT(ref, ho)
        isProvincial == (o.is_provincial = TRUE)
        yesterdayCutoff == selectCutoff(isProvincial, yesterday12NN, yesterday3PM)
        todayCutoff == selectCutoff(isProvincial, today12NN, today3PM)
    IN  IF approvedBefore(approvedPHT, yesterdayCutoff)
        THEN cutoffOverdueIncrement
        ELSE IF approvedBefore(approvedPHT, todayCutoff)
        THEN [NoIncrement EXCEPT !.shipToday = 1]
        ELSE [NoIncrement EXCEPT !.newOrders = 1]

\* getTileCounts, one iteration of "for (const o of approvedOrders)"
loopIteration_overdueByApproval(o, phtNow, ho) ==
    IF o.preferred_delivery_date # Null /\ withoutDateIncrements(o, phtNow, ho).overdue = 0
    THEN withDateIncrements(o, phtNow, ho)
    ELSE withoutDateIncrements(o, phtNow, ho)
loopIteration(o, phtNow, ho) ==
    IF o.preferred_delivery_date # Null
    THEN withDateIncrements(o, phtNow, ho)
    ELSE withoutDateIncrements(o, phtNow, ho)

\* the Sunday early return of getTileCounts: phtNow.getDay() === 0
isSundayPHT_saturday(clock, ho) == getDay(toPHT(clock, ho), ho) = 6
isSundayPHT(clock, ho) == getDay(toPHT(clock, ho), ho) = 0

\* the increments of every iteration the loop of getTileCounts runs
loopTally(orders, clock, ho) ==
    IF isSundayPHT(clock, ho)
    THEN << >>
    ELSE [i \in 1..Len(orders) |-> loopIteration(orders[i], toPHT(clock, ho), ho)]

RECURSIVE SumField_fromSecond(_, _, _)
SumField_fromSecond(t, f, n) ==
    IF n <= 1 THEN 0 ELSE SumField_fromSecond(t, f, n - 1) + t[n][f]

RECURSIVE SumField(_, _, _)
SumField(t, f, n) == IF n = 0 THEN 0 ELSE SumField(t, f, n - 1) + t[n][f]

\* const pending = shipToday + scheduled + newOrders
pendingOf_plusOverdue(shipToday, overdue, scheduled, newOrders) ==
    shipToday + overdue + scheduled + newOrders
pendingOf(shipToday, overdue, scheduled, newOrders) == shipToday + scheduled + newOrders

\* getTileCounts, with new Date() = clock
getTileCounts(orders, clock, ho) ==
    LET t == loopTally(orders, clock, ho)
        shipToday == SumField(t, "shipToday", Len(t))
        overdue == SumField(t, "overdue", Len(t))
        scheduled == SumField(t, "scheduled", Len(t))
        newOrders == SumField(t, "newOrders", Len(t))
    IN  IF isSundayPHT(clock, ho)
        THEN [shipToday |-> 0, overdue |-> 0, scheduled |-> 0, newOrders |-> 0, pending |-> 0]
        ELSE [shipToday |-> shipToday, overdue |-> overdue, scheduled |-> scheduled,
              newOrders |-> newOrders,
              pending |-> pendingOf(shipToday, overdue, scheduled, newOrders)]

\* isOverdue, with new Date() = clock
isOverdue(o, clock, ho) ==
    LET phtNow == toPHT(clock, ho)
        todayPHT == dateOnly(phtNow, ho)
        isProvincial == (o.is_provincial = TRUE)
    IN  IF o.preferred_delivery_date # Null
        THEN LET deliveryDate == parseDateMidnight(Val(o.preferred_delivery_date), ho)
                 deliveryDatePHT == toPHT(deliveryDate, ho)
                 deliveryDateOnly == dateOnly(deliveryDatePHT, ho)
                 todayCutoff == setHours(phtNow,
                                         IF isProvincial THEN ProvincialCutoffHour
                                                         ELSE MetroCutoffHour, ho)
             IN  IF deliveryDateOnly < todayPHT
                 THEN TRUE
                 ELSE IF deliveryDateOnly = todayPHT
                 THEN phtNow > todayCutoff
                 ELSE FALSE
        ELSE LET ref == getEffectiveApprovalDate(o)
                 yesterdayCutoff == setHours(setDateMinus1(phtNow),
                                             IF isProvincial THEN ProvincialCutoffHour
                                                             ELSE MetroCutoffHour, ho)
                 approvedPHT == toPHT(ref, ho)
             IN  dateLess(approvedPHT, yesterdayCutoff)

----------------------------------------------------------------------------
(* Inputs: clock readings, host offsets, orders *)

\* instant at which the Manila wall clock shows day d, time of day tod
ManilaInstant(d, tod) == d * Day + tod - ManilaOffset * Hour

NowTimes ==
    { HMS(0, 0, 0), HMS(11, 59, 0), HMS(12, 0, 0), HMS(12, 0, 0) + 500, HMS(12, 0, 1),
      HMS(12, 1, 0),
      HMS(15, 0, 0), HMS(15, 0, 0) + 500, HMS(15, 0, 1),
      HMS(23, 59, 59) + 999 }

Nows == { ManilaInstant(d, tod) : d \in 0..MaxDay, tod \in NowTimes }

\* hosts at UTC, at Manila time, and east of Manila
HostOffsets == {0, 8, 9}

\* Shopify timestamps carry whole seconds
OrderTimes == { HMS(11, 59, 59), HMS(12, 0, 0), HMS(14, 0, 0), HMS(15, 0, 0) }

OrderInstants == { ManilaInstant(d, tod) : d \in 0..MaxDay, tod \in OrderTimes }

EarliestInstant == ManilaInstant(0, HMS(11, 59, 59))

CreatedInstants == { EarliestInstant, ManilaInstant(1, HMS(14, 0, 0)) }

DeliveryDays == 0..(MaxDay + 1)

LatestInstant == ManilaInstant(MaxDay, HMS(15, 0, 0))

\* orders without a delivery date, over every pair of timestamps; orders
\* with a delivery date, over timestamps before, between and after the days
\* rendered
Orders ==
    [ created_at : CreatedInstants,
      approved_at : {Null} \cup { Some(t) : t \in OrderInstants },
      preferred_delivery_date : {Null},
      is_provincial : BOOLEAN ]
    \cup
    [ created_at : CreatedInstants,
      approved_at : {Null, Some(EarliestInstant), Some(LatestInstant)},
      preferred_delivery_date : { Some(d) : d \in DeliveryDays },
      is_provincial : BOOLEAN ]

\* a smaller pool, for the lists of several orders
SampleOrders ==
    [ created_at : {EarliestInstant},
      approved_at : {Null, Some(ManilaInstant(1, HMS(14, 0, 0)))},
      preferred_delivery_date : {Null},
      is_provincial : BOOLEAN ]
    \cup
    [ created_at : {EarliestInstant},
      approved_at : {Null},
      preferred_delivery_date : {Some(1), Some(2)},
      is_provincial : {FALSE} ]

RECURSIVE SeqsUpTo(_, _)
SeqsUpTo(S, n) ==
    IF n = 0 THEN { << >> }
    ELSE LET shorter == SeqsUpTo(S, n - 1)
         IN  shorter \cup { Append(q, x) : q \in { r \in shorter : Len(r) = n - 1 }, x \in S }

OrderLists == { <<o>> : o \in Orders } \cup SeqsUpTo(SampleOrders, MaxOrders)

----------------------------------------------------------------------------
(* JavaScript strings: a string is the sequence of its characters *)

UpperCase ==
    << "A", "B", "C", "D", "E", "F", "G", "H", "I", "J", "K", "L", "M",
       "N", "O", "P", "Q", "R", "S", "T", "U", "V", "W", "X", "Y", "Z" >>

LowerCase ==
    << "a", "b", "c", "d", "e", "f", "g", "h", "i", "j", "k", "l", "m",
       "n", "o", "p", "q", "r", "s", "t", "u", "v", "w", "x", "y", "z" >>

lowerChar(c) ==
    IF \E i \in DOMAIN UpperCase : UpperCase[i] = c
    THEN LowerCase[CHOOSE i \in DOMAIN UpperCase : UpperCase[i] = c]
    ELSE c

\* s.toLowerCase()
toLowerCase(s) == [i \in DOMAIN s |-> lowerChar(s[i])]

\* s.includes(sub)
includes(s, sub) ==
    \E i \in 1..(Len(s) - Len(sub) + 1) : SubSeq(s, i, i + Len(sub) - 1) = sub

\* s.split(sep), sep one character: ''.split(',') is ['']
RECURSIVE split(_, _)
split(s, sep) ==
    IF \A i \in DOMAIN s : s[i] # sep
    THEN << s >>
    ELSE LET first == CHOOSE i \in DOMAIN s :
                         s[i] = sep /\ \A j \in 1..(i - 1) : s[j] # sep
         IN  << SubSeq(s, 1, first - 1) >> \o split(SubSeq(s, first + 1, Len(s)), sep)

\* s.trim()
RECURSIVE trim(_)
trim(s) ==
    IF s # << >> /\ s[1] = " " THEN trim(Tail(s))
    ELSE IF s # << >> /\ s[Len(s)] = " " THEN trim(SubSeq(s, 1, Len(s) - 1))
    ELSE s

\* !!v of an optional string: undefined, null and '' are falsy
Truthy(v) == v # Null /\ Val(v) # << >>

\* v || null
orNull(v) == IF Truthy(v) THEN v ELSE Null

----------------------------------------------------------------------------
(* The string literals of the handlers *)

Str_true == << "t", "r", "u", "e" >>
Str_1 == << "1" >>
Str_yes == << "y", "e", "s" >>
Str_false == << "f", "a", "l", "s", "e" >>
Str_0 == << "0" >>
Str_no == << "n", "o" >>
Str_keevtest == << "k", "e", "e", "v", "t", "e", "s", "t" >>
Str_onHold == << "o", "n", " ", "h", "o", "l", "d" >>
Str_on_hold == << "o", "n", "_", "h", "o", "l", "d" >>
Str_provincial == << "p", "r", "o", "v", "i", "n", "c", "i", "a", "l" >>
Str_async == << "a", "s", "y", "n", "c" >>
Str_Bearer == << "B", "e", "a", "r", "e", "r", " " >>
Str_undefined == << "u", "n", "d", "e", "f", "i", "n", "e", "d" >>

----------------------------------------------------------------------------
(* src/api/orders.js: what the handler makes of the fetched edges *)

\* discountCodes.some(code => code?.toLowerCase?.().includes('keevtest'))
hasKeevtest(node) ==
    \E i \in DOMAIN node.discountCodes :
       includes(toLowerCase(node.discountCodes[i]), Str_keevtest)

\* metafield?.value?.toLowerCase?.() || ''
metafieldVal(metafield) ==
    IF metafield = Null THEN << >> ELSE toLowerCase(Val(metafield).value)

\* the three states: true, false, null
parseThreeState(val) ==
    IF val \in {Str_true, Str_1, Str_yes} THEN Some(TRUE)
    ELSE IF val \in {Str_false, Str_0, Str_no} THEN Some(FALSE)
    ELSE Null

\* approvedToShip === true ? (metafield?.updatedAt || null) : null
approvedAtOf(approvedToShip, metafield) ==
    IF approvedToShip = Some(TRUE) /\ metafield # Null
    THEN Val(metafield).updatedAt
    ELSE Null

\* (node.tags || []).some(t => t.toLowerCase() === 'provincial')
isProvincialTagged(node) ==
    \E i \in DOMAIN node.tags : toLowerCase(node.tags[i]) = Str_provincial

\* .map(edge => ...): the fields of the order record the dashboard reads;
\* preferredDeliveryDateMetafield is queried under the key
\* custom.preferred_delivery_data
mapOrder(node) ==
    LET approvedToShip == parseThreeState(metafieldVal(node.metafield))
    IN  [ id |-> node.id,
          created_at |-> node.createdAt,
          approved_to_ship |-> approvedToShip,
          approved_at |-> approvedAtOf(approvedToShip, node.metafield),
          preferred_delivery_date |-> node.preferredDeliveryData,
          prescription_status |-> orNull(node.prescriptionStatus),
          is_provincial |-> isProvincialTagged(node) ]

MapSeq(Op(_), s) == [i \in DOMAIN s |-> Op(s[i])]

notKeevtest(node) == ~hasKeevtest(node)

filteredOrdersOf(allOrders) == MapSeq(mapOrder, SelectSeq(allOrders, notKeevtest))

isApproved(o) == o.approved_to_ship = Some(TRUE)

\* ps.toLowerCase().includes('on hold') || ps.toLowerCase().includes('on_hold')
isOnHold_caseSensitive(o) ==
    LET ps == IF o.prescription_status = Null THEN << >> ELSE Val(o.prescription_status)
    IN  includes(ps, Str_onHold) \/ includes(ps, Str_on_hold)
isOnHold(o) ==
    LET ps == IF o.prescription_status = Null
              THEN << >>
              ELSE toLowerCase(Val(o.prescription_status))
    IN  includes(ps, Str_onHold) \/ includes(ps, Str_on_hold)

isNotApproved(o) == o.approved_to_ship = Some(FALSE) /\ ~isOnHold(o)

\* orders.sort((a, b) => new Date(b.created_at) - new Date(a.created_at)):
\* a stable sort, newest first
RECURSIVE insertNewestFirst(_, _)
insertNewestFirst(sorted, o) ==
    IF sorted = << >> THEN << o >>
    ELSE IF sorted[Len(sorted)].created_at >= o.created_at
         THEN Append(sorted, o)
         ELSE Append(insertNewestFirst(SubSeq(sorted, 1, Len(sorted) - 1), o),
                     sorted[Len(sorted)])

RECURSIVE sortNewestFirst(_)
sortNewestFirst(orders) ==
    IF orders = << >> THEN << >>
    ELSE insertNewestFirst(sortNewestFirst(SubSeq(orders, 1, Len(orders) - 1)),
                           orders[Len(orders)])

listWithSummary(orders) == [orders |-> orders, summary |-> [count |-> Len(orders)]]

\* res.json({ approved: ..., notApproved: ... })
ordersResponse(allOrders) ==
    LET filteredOrders == filteredOrdersOf(allOrders)
    IN  [ status |-> 200,
          approved |-> Some(listWithSummary(
                           sortNewestFirst(SelectSeq(filteredOrders, isApproved)))),
          notApproved |-> Some(listWithSummary(
                           sortNewestFirst(SelectSeq(filteredOrders, isNotApproved)))) ]

\* res.status(s).json({ error }): no order data
errorResponse(s) == [status |-> s, approved |-> Null, notApproved |-> Null]

\* the page a query returns: the first one without a cursor, else the one
\* after the page whose endCursor the cursor is
pageAfter(pages, cursor) == IF cursor = Null THEN pages[1] ELSE pages[Val(cursor) + 1]

----------------------------------------------------------------------------
(* src/unnamed/part_002 (async orders cron) and part_003 (fulfillment cron) *)

\* `Bearer ${process.env.CRON_SECRET}`
bearer(secret) == Str_Bearer \o (IF secret = Null THEN Str_undefined ELSE Val(secret))

\* part_002: authHeader !== `Bearer ...`, and then: if (process.env.CRON_SECRET)
asyncUnauthorized(e, authorization) ==
    /\ authorization # Some(bearer(e.CRON_SECRET))
    /\ Truthy(e.CRON_SECRET)

\* part_003: process.env.CRON_SECRET && authHeader !== `Bearer ...`
fulfillmentUnauthorized_presentHeaderOnly(e, authorization) ==
    /\ Truthy(e.CRON_SECRET)
    /\ authorization # Null
    /\ authorization # Some(bearer(e.CRON_SECRET))
fulfillmentUnauthorized(e, authorization) ==
    /\ Truthy(e.CRON_SECRET)
    /\ authorization # Some(bearer(e.CRON_SECRET))

\* !storeUrl || !accessToken || !agentmailApiKey
cronMisconfigured(e) ==
    \/ ~Truthy(e.SHOPIFY_STORE_URL)
    \/ ~Truthy(e.SHOPIFY_ACCESS_TOKEN)
    \/ ~Truthy(e.AGENTMAIL_API_KEY)

\* (order.tags || '').toLowerCase().split(',').map(t => t.trim()).includes('async')
hasAsyncTag_substring(order) ==
    includes(toLowerCase(IF Truthy(order.tags) THEN Val(order.tags) ELSE << >>), Str_async)
hasAsyncTag(order) ==
    LET tags == MapSeq(trim, split(toLowerCase(IF Truthy(order.tags)
                                               THEN Val(order.tags)
                                               ELSE << >>), ","))
    IN  \E i \in DOMAIN tags : tags[i] = Str_async

\* the outcome of one cron invocation: the response and the outgoing calls
cronOutcome(handler, authorization, status, shopifyRequests, mailCalls, body) ==
    [ handler |-> handler,
      authorization |-> authorization,
      status |-> status,
      shopifyRequests |-> shopifyRequests,
      mailCalls |-> mailCalls,
      body |-> body,
      report |-> Null ]

\* the orders the fulfillment report lists in the mail it sends
withReport(outcome, approved, notApproved) ==
    [outcome EXCEPT !.report = Some([approved |-> approved, notApproved |-> notApproved])]

\* part_002: the handler
asyncOrdersCron(e, authorization, sh, mailAccepts) ==
    IF asyncUnauthorized(e, authorization)
    THEN cronOutcome("async-orders", authorization, 401, 0, 0, Null)
    ELSE IF cronMisconfigured(e)
    THEN cronOutcome("async-orders", authorization, 400, 0, 0, Null)
    ELSE IF ~sh.restOk
    THEN cronOutcome("async-orders", authorization, 500, 1, 0, Null)
    ELSE LET asyncOrders == SelectSeq(sh.restOrders, hasAsyncTag)
         IN  IF Len(asyncOrders) = 0
             THEN cronOutcome("async-orders", authorization, 200, 1, 0,
                              Some([success |-> FALSE, orderCount |-> 0]))
             ELSE IF ~mailAccepts
             THEN cronOutcome("async-orders", authorization, 500, 1, 1, Null)
             ELSE cronOutcome("async-orders", authorization, 200, 1, 1,
                              Some([success |-> TRUE, orderCount |-> Len(asyncOrders)]))

\* part_003: the pagination loop, from the page after cursor on; the pages
\* of a well-formed upstream carry their endCursor, so the cursor advances
RECURSIVE cronPaginate(_, _, _, _)
cronPaginate(pages, cursor, allOrders, requests) ==
    LET page == pageAfter(pages, cursor)
    IN  IF ~page.ok \/ page.errors
        THEN [failed |-> TRUE, allOrders |-> << >>, requests |-> requests + 1]
        ELSE IF page.hasNextPage
        THEN cronPaginate(pages, page.endCursor, allOrders \o page.edges, requests + 1)
        ELSE [failed |-> FALSE, allOrders |-> allOrders \o page.edges,
              requests |-> requests + 1]

\* part_003: .map(edge => ...), the fields the report counts by and lists;
\* preferredDeliveryDateMetafield is queried under the key
\* custom.preferred_delivery_date
cronMapOrder(node) ==
    [ id |-> node.id,
      created_at |-> node.createdAt,
      approved_to_ship |-> parseThreeState(metafieldVal(node.metafield)),
      preferred_delivery_date |-> node.preferredDeliveryDate,
      prescription_status |-> orNull(node.prescriptionStatus) ]

cronIsNotApproved(o) == o.approved_to_ship = Some(FALSE)

\* part_003: the handler
fulfillmentCron(e, authorization, sh, mailAccepts) ==
    IF fulfillmentUnauthorized(e, authorization)
    THEN cronOutcome("fulfillment", authorization, 401, 0, 0, Null)
    ELSE IF cronMisconfigured(e)
    THEN cronOutcome("fulfillment", authorization, 400, 0, 0, Null)
    ELSE LET fetched == cronPaginate(sh.pages, Null, << >>, 0)
             filteredOrders == MapSeq(cronMapOrder, SelectSeq(fetched.allOrders, notKeevtest))
             approved == sortNewestFirst(SelectSeq(filteredOrders, isApproved))
             notApproved == sortNewestFirst(SelectSeq(filteredOrders, cronIsNotApproved))
         IN  IF fetched.failed
             THEN cronOutcome("fulfillment", authorization, 500, fetched.requests, 0, Null)
             ELSE IF ~mailAccepts
             THEN withReport(cronOutcome("fulfillment", authorization, 500,
                                         fetched.requests, 1, Null),
                             approved, notApproved)
             ELSE withReport(cronOutcome("fulfillment", authorization, 200,
                                         fetched.requests, 1,
                                         Some([ success |-> TRUE,
                                                approvedOrderCount |-> Len(approved),
                                                notApprovedOrderCount |-> Len(notApproved),
                                                totalOrderCount |->
                                                    Len(approved) + Len(notApproved) ])),
                             approved, notApproved)

----------------------------------------------------------------------------
(* src/api/send-email.js *)

\* the outcome of one request: the response and the outgoing calls
emailOutcome(status, shopifyRequests, shopifyThrew, mailCalls, mailThrew, body) ==
    [ status |-> status,
      shopifyRequests |-> shopifyRequests,
      shopifyThrew |-> shopifyThrew,
      mailCalls |-> mailCalls,
      mailThrew |-> mailThrew,
      body |-> body ]

\* the mail fetch threw (catch (fetchErr), rethrown) or !emailRes.ok
mailFailed_thrownOnly(mailAccepts, mailThrows) == mailThrows
mailFailed(mailAccepts, mailThrows) == mailThrows \/ ~mailAccepts

\* the handler; the filter, map and split of lines 87-140 are those of
\* orders.js, on the one page the query returns
sendEmail(e, sh, shopifyThrows, mailAccepts, mailThrows) ==
    IF ~Truthy(e.SHOPIFY_STORE_URL) \/ ~Truthy(e.SHOPIFY_ACCESS_TOKEN)
    THEN emailOutcome(400, 0, FALSE, 0, FALSE, [success |-> FALSE])
    ELSE IF ~Truthy(e.AGENTMAIL_API_KEY)
    THEN emailOutcome(400, 0, FALSE, 0, FALSE, [success |-> FALSE])
    ELSE IF shopifyThrows
    THEN emailOutcome(500, 1, TRUE, 0, FALSE, [success |-> FALSE])
    ELSE LET page == pageAfter(sh.pages, Null)
             filteredOrders == filteredOrdersOf(page.edges)
             approved == SelectSeq(filteredOrders, isApproved)
             notApproved == SelectSeq(filteredOrders, isNotApproved)
         IN  IF ~page.ok \/ page.errors
             THEN emailOutcome(500, 1, FALSE, 0, FALSE, [success |-> FALSE])
             ELSE IF mailFailed(mailAccepts, mailThrows)
             THEN emailOutcome(500, 1, FALSE, 1, mailThrows, [success |-> FALSE])
             ELSE emailOutcome(200, 1, FALSE, 1, FALSE,
                               [ success |-> TRUE,
                                 approved |-> Len(approved),
                                 notApproved |-> Len(notApproved) ])

----------------------------------------------------------------------------
(* Inputs of the handlers: environment, upstream pages, requests *)

Str_k1 == << "k", "1" >>
Str_shop == << "s", "h", "o", "p" >>

Secrets == {Null, Some(<< >>), Some(Str_k1)}

Settings == {Null, Some(Str_shop)}

Envs ==
    [ CRON_SECRET : Secrets,
      SHOPIFY_STORE_URL : Settings,
      SHOPIFY_ACCESS_TOKEN : Settings,
      AGENTMAIL_API_KEY : Settings ]

\* the environment of a deployment without cron secret and mail key
EnvNoCron(storeUrl, accessToken) ==
    [ CRON_SECRET |-> Null,
      SHOPIFY_STORE_URL |-> storeUrl,
      SHOPIFY_ACCESS_TOKEN |-> accessToken,
      AGENTMAIL_API_KEY |-> Null ]

\* req.headers.get('authorization')
AuthorizationHeaders ==
    { Null,
      Some(Str_Bearer \o Str_k1),
      Some(toLowerCase(Str_Bearer) \o Str_k1),
      Some(Str_k1),
      Some(Str_Bearer \o Str_k1 \o << " " >>),
      Some(Str_Bearer \o Str_undefined),
      Some(Str_Bearer) }

\* values of the custom.approved_to_ship metafield
MetafieldValues ==
    { Str_true, << "T", "R", "U", "E" >>, Str_1, << "Y", "e", "s" >>,
      Str_false, << "F", "a", "l", "s", "e" >>, Str_0, Str_no,
      << >>, << "m", "a", "y", "b", "e" >> }

Metafields ==
    {Null} \cup { Some(m) : m \in [ value : MetafieldValues,
                                     updatedAt : {Null, Some(LatestInstant)} ] }

Str_SAVE10 == << "S", "A", "V", "E", "1", "0" >>
Str_KeevTest5 == << "K", "e", "e", "v", "T", "e", "s", "t", "5" >>

DiscountCodeLists == { << >>, << Str_SAVE10 >>, << Str_SAVE10, Str_KeevTest5 >> }

Str_OnHold == << "O", "n", " ", "H", "o", "l", "d" >>
Str_rx_on_hold == << "r", "x", "_", "o", "n", "_", "h", "o", "l", "d" >>
Str_Approved == << "A", "p", "p", "r", "o", "v", "e", "d" >>

PrescriptionStatuses == { Null, Some(<< >>), Some(Str_OnHold), Some(Str_rx_on_hold), Some(Str_Approved) }

Str_Provincial == << "P", "r", "o", "v", "i", "n", "c", "i", "a", "l" >>

\* an edge's node, its id apart; the delivery date of an order is kept in
\* the metafield custom.preferred_delivery_data or in
\* custom.preferred_delivery_date, whichever the store defines
Node(metafield, discountCodes, prescriptionStatus, createdAt, deliveryData, deliveryDate, tags) ==
    [ id |-> 0,
      createdAt |-> createdAt,
      metafield |-> metafield,
      preferredDeliveryData |-> deliveryData,
      preferredDeliveryDate |-> deliveryDate,
      prescriptionStatus |-> prescriptionStatus,
      discountCodes |-> discountCodes,
      tags |-> tags ]

Nodes ==
    { Node(m, d, p, EarliestInstant, Null, Null, << >>) :
         m \in Metafields, d \in DiscountCodeLists, p \in PrescriptionStatuses }

SampleNodes ==
    { Node(Some([value |-> Str_true, updatedAt |-> Some(LatestInstant)]),
           << >>, Null, EarliestInstant, Some(1), Null, << Str_Provincial >>),
      Node(Some([value |-> Str_1, updatedAt |-> Null]),
           << Str_KeevTest5 >>, Null, LatestInstant, Null, Null, << >>),
      Node(Some([value |-> Str_yes, updatedAt |-> Some(LatestInstant)]),
           << >>, Some(Str_Approved), LatestInstant, Null, Null, << >>),
      Node(Some([value |-> Str_false, updatedAt |-> Some(LatestInstant)]),
           << >>, Some(Str_OnHold), EarliestInstant, Null, Null, << >>),
      Node(Some([value |-> Str_no, updatedAt |-> Some(LatestInstant)]),
           << >>, Null, LatestInstant, Null, Some(1), << >>),
      Node(Null, << >>, Null, EarliestInstant, Null, Null, << >>) }

MaxPages == 2

\* the edges of page k: the nodes, with ids unique across the pages
EdgesOf(nodes, k) == [j \in DOMAIN nodes |-> [nodes[j] EXCEPT !.id = 10 * k + j]]

\* the pages Shopify serves for the given lists of nodes: every page but the
\* last has a next page, and endCursor names the page
PagesOf(nodeLists) ==
    [ k \in DOMAIN nodeLists |->
        [ ok |-> TRUE,
          status |-> 200,
          errors |-> FALSE,
          edges |-> EdgesOf(nodeLists[k], k),
          hasNextPage |-> k < Len(nodeLists),
          endCursor |-> IF nodeLists[k] = << >> THEN Null ELSE Some(k) ] ]

NodeListsPerPage ==
    { << << n >> >> : n \in Nodes }
       \cup { << << n, m >> >> : n \in SampleNodes, m \in SampleNodes }
       \cup { << << >> >> }
       \cup UNION { [1..p -> { << n >> : n \in SampleNodes }] : p \in 2..MaxPages }

\* a page Shopify refuses (HTTP 502), or answers with GraphQL errors
FailedPage == [ok |-> FALSE, status |-> 502, errors |-> FALSE, edges |-> << >>,
               hasNextPage |-> FALSE, endCursor |-> Null]

ErrorsPage == [ok |-> TRUE, status |-> 200, errors |-> TRUE, edges |-> << >>,
               hasNextPage |-> FALSE, endCursor |-> Null]

PageLists ==
    { PagesOf(l) : l \in NodeListsPerPage }
       \cup { [PagesOf(l) EXCEPT ![k] = bad] :
                 l \in [1..MaxPages -> { << n >> : n \in SampleNodes }],
                 k \in 1..MaxPages,
                 bad \in {FailedPage, ErrorsPage} }

\* order.tags of the REST API: the tags joined by ', '
Str_rx == << "r", "x" >>

TagStrings ==
    { Null,
      Some(<< >>),
      Some(Str_async),
      Some(<< "A", "s", "y", "n", "c" >> \o << ",", " " >> \o Str_rx),
      Some(Str_rx \o << ",", " " >> \o << "A", "S", "Y", "N", "C" >> \o << " " >>),
      Some(Str_async \o << "h", "r", "o", "n", "o", "u", "s" >>),
      Some(Str_rx \o << ",", " " >> \o << "n", "o", "t", "-" >> \o Str_async) }

MaxRestOrders == 2

RestOrderLists ==
    UNION { [1..n -> [tags : TagStrings]] : n \in 0..MaxRestOrders }

\* the pages the fulfillment cron is run against
CronPageLists ==
    { PagesOf(<< << n, m >> >>) : n \in SampleNodes, m \in SampleNodes }
       \cup { PagesOf(<< << >> >>) }
       \cup { [PagesOf(l) EXCEPT ![k] = bad] :
                 l \in { << << n >>, << n >> >> : n \in SampleNodes },
                 k \in 1..2,
                 bad \in {FailedPage, ErrorsPage} }

----------------------------------------------------------------------------
(* The server side at rest *)

NoShopify == [restOk |-> TRUE, restOrders |-> << >>, pages |-> PagesOf(<< << >> >>)]

CronIdle == cronOutcome("none", Null, 0, 0, 0, Null)

ApiIdle ==
    [ pc |-> "idle",
      allOrders |-> << >>,
      cursor |-> Null,
      requested |-> << >>,
      threw |-> FALSE,
      response |-> Null ]

\* /api/send-email: before any request
EmailIdle == emailOutcome(0, 0, FALSE, 0, FALSE, [success |-> FALSE])

ServerIdle ==
    /\ env = EnvNoCron(Null, Null)
    /\ shopify = NoShopify
    /\ mailOk = TRUE
    /\ cron = CronIdle
    /\ api = ApiIdle
    /\ email = EmailIdle

----------------------------------------------------------------------------
(* The component *)

ZeroCounts == [shipToday |-> 0, overdue |-> 0, scheduled |-> 0, newOrders |-> 0, pending |-> 0]

\* the clock reading that follows each reading (none after the last)
NextReading ==
    [ t \in Nows |-> { u \in Nows : u > t /\ \A w \in Nows : w > t => u <= w } ]

\* the clock never runs backwards: a later reading is the same or the next instant
LaterReadings(t) == {t} \cup NextReading[t]

\* one render of App: getTileCounts reads the clock ("clock"), then the
\* isOverdue calls of the filter badge read it again ("later")
Render(orders, clock, later) ==
    /\ Len(orders) = 0 => later = clock
    /\ now' = clock
    /\ filterNow' = later
    /\ tileCounts' = getTileCounts(orders, clock, hostOffset)
    /\ tally' = loopTally(orders, clock, hostOffset)
    /\ overdueFlags' = [i \in 1..Len(orders) |-> isOverdue(orders[i], later, hostOffset)]

Init ==
    /\ upstream \in OrderLists
    /\ hostOffset \in HostOffsets
    /\ now \in Nows
    /\ filterNow = now
    /\ approvedOrders = << >>
    /\ tileCounts = getTileCounts(<< >>, now, hostOffset)
    /\ tally = << >>
    /\ overdueFlags = << >>
    /\ ServerIdle

\* fetchOrders: setApprovedOrders(data.approved.orders), then the re-render
FetchOrders ==
    /\ \E clock \in LaterReadings(filterNow) :
          \E later \in LaterReadings(clock) :
             /\ approvedOrders' = upstream
             /\ Render(upstream, clock, later)
    /\ UNCHANGED <<upstream, hostOffset, env, shopify, mailOk, cron, api, email>>

\* any other state change (tab, filter, message): App renders again, later
Rerender ==
    /\ \E clock \in LaterReadings(filterNow) :
          \E later \in LaterReadings(clock) :
             /\ clock # now
             /\ Render(approvedOrders, clock, later)
    /\ UNCHANGED <<upstream, hostOffset, approvedOrders, env, shopify, mailOk, cron, api, email>>

Next == FetchOrders \/ Rerender

Spec == Init /\ [][Next]_vars

\* The same component fed orders outside the data model: created_at missing
\* or unparsable, approved_at absent or unparsable
MalformedOrders ==
    [ created_at : {InvalidDate},
      approved_at : {Null, Some(InvalidDate)},
      preferred_delivery_date : {Null},
      is_provincial : BOOLEAN ]

MalformedLists ==
    { <<m>> : m \in MalformedOrders }
       \cup { <<m, o>> : m \in MalformedOrders, o \in SampleOrders }

InitMalformed ==
    /\ upstream \in MalformedLists
    /\ hostOffset \in HostOffsets
    /\ now \in Nows
    /\ filterNow = now
    /\ approvedOrders = << >>
    /\ tileCounts = getTileCounts(<< >>, now, hostOffset)
    /\ tally = << >>
    /\ overdueFlags = << >>
    /\ ServerIdle

SpecMalformed == InitMalformed /\ [][Next]_vars

----------------------------------------------------------------------------
(* The server side: the /api/orders handler and the two cron handlers.     *)
(* They are exercised on their own, with the page not loaded.              *)

AppIdle ==
    /\ upstream = << >>
    /\ hostOffset = ManilaOffset
    /\ now = ManilaInstant(1, HMS(0, 0, 0))
    /\ filterNow = now
    /\ approvedOrders = << >>
    /\ tileCounts = getTileCounts(<< >>, now, hostOffset)
    /\ tally = << >>
    /\ overdueFlags = << >>

\* src/api/orders.js: a request arrives; the configuration check
ApiRequest ==
    /\ api.pc # "paginating"
    /\ api' = IF ~Truthy(env.SHOPIFY_STORE_URL) \/ ~Truthy(env.SHOPIFY_ACCESS_TOKEN)
              THEN [ApiIdle EXCEPT !.pc = "responded", !.response = Some(errorResponse(400))]
              ELSE [ApiIdle EXCEPT !.pc = "paginating"]
    /\ UNCHANGED <<appVars, env, shopify, mailOk, cron, email>>

\* the requests one invocation is followed for (a loop that has not ended
\* by then has gone round again)
MaxRequests == MaxPages + 2

\* src/api/orders.js: one iteration of while (hasNextPage); the iteration
\* that ends the loop goes on to filter, sort and respond; a fetch that
\* throws (or a body that does not parse) lands in catch
ApiFetchPage ==
    /\ api.pc = "paginating"
    /\ Len(api.requested) < MaxRequests
    /\ \E thrown \in BOOLEAN :
       LET page == pageAfter(shopify.pages, api.cursor)
           requested == Append(api.requested, api.cursor)
           allOrders == api.allOrders \o page.edges
       IN  api' =
             IF thrown
             THEN [api EXCEPT !.pc = "responded", !.requested = requested,
                              !.threw = TRUE,
                              !.response = Some(errorResponse(500))]
             ELSE IF ~page.ok
             THEN [api EXCEPT !.pc = "responded", !.requested = requested,
                              !.response = Some(errorResponse(page.status))]
             ELSE IF page.errors
             THEN [api EXCEPT !.pc = "responded", !.requested = requested,
                              !.response = Some(errorResponse(400))]
             ELSE IF page.hasNextPage
             THEN [api EXCEPT !.allOrders = allOrders, !.cursor = page.endCursor,
                              !.requested = requested]
             ELSE [api EXCEPT !.pc = "responded", !.allOrders = allOrders,
                              !.cursor = page.endCursor, !.requested = requested,
                              !.response = Some(ordersResponse(allOrders))]
    /\ UNCHANGED <<appVars, env, shopify, mailOk, cron, email>>

NextApi == ApiRequest \/ ApiFetchPage

InitApi ==
    /\ AppIdle
    /\ env \in { EnvNoCron(s, t) : s \in Settings, t \in Settings }
    /\ shopify \in { [NoShopify EXCEPT !.pages = p] : p \in PageLists }
    /\ mailOk = TRUE
    /\ cron = CronIdle
    /\ api = ApiIdle
    /\ email = EmailIdle

SpecApi == InitApi /\ [][NextApi]_vars

\* pages whose pageInfo reports a next page and carries no endCursor
MissingCursorPageLists ==
    UNION { { [PagesOf(l) EXCEPT ![k].hasNextPage = TRUE, ![k].endCursor = Null] :
                 k \in DOMAIN l } :
               l \in UNION { [1..p -> { << n >> : n \in SampleNodes }] : p \in 1..MaxPages } }

\* the handler against any upstream, such pages included
InitApiPaging ==
    /\ AppIdle
    /\ env \in { EnvNoCron(s, t) : s \in Settings, t \in Settings }
    /\ shopify \in { [NoShopify EXCEPT !.pages = p] : p \in PageLists \cup MissingCursorPageLists }
    /\ mailOk = TRUE
    /\ cron = CronIdle
    /\ api = ApiIdle
    /\ email = EmailIdle

SpecApiPaging == InitApiPaging /\ [][NextApi]_vars

\* part_002: one invocation of the async orders cron
AsyncOrdersCron ==
    /\ \E authorization \in AuthorizationHeaders :
          cron' = asyncOrdersCron(env, authorization, shopify, mailOk)
    /\ UNCHANGED <<appVars, env, shopify, mailOk, api, email>>

\* part_003: one invocation of the fulfillment report cron
FulfillmentCron ==
    /\ \E authorization \in AuthorizationHeaders :
          cron' = fulfillmentCron(env, authorization, shopify, mailOk)
    /\ UNCHANGED <<appVars, env, shopify, mailOk, api, email>>

NextCron == AsyncOrdersCron \/ FulfillmentCron

\* the deployments of the cron jobs: fully configured, or one setting missing
CronEnvs ==
    { e \in Envs :
         Cardinality({ f \in {"SHOPIFY_STORE_URL", "SHOPIFY_ACCESS_TOKEN", "AGENTMAIL_API_KEY"} :
                          e[f] = Null }) <= 1 }

InitCron ==
    /\ AppIdle
    /\ env \in CronEnvs
    /\ shopify \in { [NoShopify EXCEPT !.restOk = ok, !.restOrders = l] :
                        ok \in BOOLEAN, l \in RestOrderLists }
                   \cup { [NoShopify EXCEPT !.pages = p] : p \in CronPageLists }
    /\ mailOk \in BOOLEAN
    /\ cron = CronIdle
    /\ api = ApiIdle
    /\ email = EmailIdle

SpecCron == InitCron /\ [][NextCron]_vars

\* src/api/send-email.js: one request; either fetch may throw
SendEmail ==
    /\ \E shopifyThrows \in BOOLEAN : \E mailThrows \in BOOLEAN :
          email' = sendEmail(env, shopify, shopifyThrows, mailOk, mailThrows)
    /\ UNCHANGED <<appVars, env, shopify, mailOk, cron, api>>

NextSendEmail == SendEmail

\* the pages /api/send-email is run against
SendEmailPageLists ==
    { PagesOf(<< << n, m >> >>) : n \in SampleNodes, m \in SampleNodes }
       \cup { PagesOf(<< << >> >>), << FailedPage >>, << ErrorsPage >> }

InitSendEmail ==
    /\ AppIdle
    /\ env \in { e \in Envs : e.CRON_SECRET = Null }
    /\ shopify \in { [NoShopify EXCEPT !.pages = p] : p \in SendEmailPageLists }
    /\ mailOk \in BOOLEAN
    /\ cron = CronIdle
    /\ api = ApiIdle
    /\ email = EmailIdle

SpecSendEmail == InitSendEmail /\ [][NextSendEmail]_vars

TypeOK ==
    /\ upstream \in OrderLists
    /\ hostOffset \in HostOffsets
    /\ now \in Nows
    /\ filterNow \in LaterReadings(now)
    /\ approvedOrders \in {<< >>, upstream}
    /\ Len(tally) \in {0, Len(approvedOrders)}
    /\ Len(overdueFlags) = Len(approvedOrders)

----------------------------------------------------------------------------
(* The statements checked: business time as the specification defines it,  *)
(* computed on the instants themselves, independently of the Date          *)
(* arithmetic above.                                                       *)

\* calendar day, in the business time zone (UTC+8), of an instant
BusinessDay(t) == (t + 8 * Hour) \div Day

BusinessSunday(t) == BusinessDay(t) % 7 = 0

\* the instant of the cutoff (12:00 provincial, 15:00 metro, business time)
\* on business day d
CutoffInstant(d, provincial) ==
    d * Day + (IF provincial THEN 12 ELSE 15) * Hour - 8 * Hour

TodayCutoff(t, provincial) == CutoffInstant(BusinessDay(t), provincial)
YesterdayCutoff(t, provincial) == CutoffInstant(BusinessDay(t) - 1, provincial)

\* the status the tiles report for an order, read off its increments
StatusOf(inc) ==
    IF inc.overdue = 1 THEN "Overdue"
    ELSE IF inc.shipToday = 1 THEN "DueToday"
    ELSE IF inc.scheduled = 1 THEN "Scheduled"
    ELSE IF inc.newOrders = 1 THEN "NewlyApproved"
    ELSE "None"

\* the orders the latest render classified
Classified == DOMAIN tally

HasDate(i) == approvedOrders[i].preferred_delivery_date # Null
DateOf(i) == Val(approvedOrders[i].preferred_delivery_date)
Provincial(i) == approvedOrders[i].is_provincial

\* the effective approval instant as the specification defines it
EffectiveApprovalInstant(o) ==
    IF o.approved_at = Null THEN o.created_at
    ELSE IF Val(o.approved_at) > o.created_at THEN Val(o.approved_at)
    ELSE o.created_at

\* C1: on a Sunday (business time) every tile count is zero, whatever the
\* approved orders are.
C1_SundayAllZero ==
    BusinessSunday(now) =>
        /\ tileCounts.shipToday = 0
        /\ tileCounts.overdue = 0
        /\ tileCounts.scheduled = 0
        /\ tileCounts.newOrders = 0
        /\ tileCounts.pending = 0

\* a Sunday render of a non-empty list holding an order isOverdue reports
C1_Witness ==
    /\ BusinessSunday(now)
    /\ Len(approvedOrders) > 0
    /\ \E i \in DOMAIN approvedOrders : overdueFlags[i]

\* C2: on a non-Sunday, an order without a delivery date is Overdue when
\* its effective approval instant is before yesterday's cutoff, DueToday
\* when it is at or after yesterday's cutoff and before today's cutoff, and
\* NewlyApproved otherwise (cutoff 12:00 provincial, 15:00 metro).
C2_CutoffStatus ==
    ~BusinessSunday(now) =>
        /\ Len(tally) = Len(approvedOrders)
        /\ \A i \in DOMAIN approvedOrders :
              ~HasDate(i) =>
                 LET eff == EffectiveApprovalInstant(approvedOrders[i])
                 IN  StatusOf(tally[i]) =
                        IF eff < YesterdayCutoff(now, Provincial(i)) THEN "Overdue"
                        ELSE IF eff < TodayCutoff(now, Provincial(i)) THEN "DueToday"
                        ELSE "NewlyApproved"

\* a provincial order approved between the provincial and the metro cutoff
\* of yesterday, reported DueToday
C2_Witness ==
    /\ ~BusinessSunday(now)
    /\ \E i \in Classified :
          /\ ~HasDate(i)
          /\ Provincial(i)
          /\ EffectiveApprovalInstant(approvedOrders[i]) >= YesterdayCutoff(now, TRUE)
          /\ EffectiveApprovalInstant(approvedOrders[i]) < YesterdayCutoff(now, FALSE)
          /\ StatusOf(tally[i]) = "DueToday"

\* C3: on a non-Sunday, an order whose delivery date is today's business
\* date is Overdue when now is strictly after today's cutoff of its
\* destination class, and DueToday otherwise.
C3_DeliveryTodayStatus ==
    ~BusinessSunday(now) =>
        \A i \in Classified :
           (HasDate(i) /\ DateOf(i) = BusinessDay(now)) =>
              StatusOf(tally[i]) =
                 IF now > TodayCutoff(now, Provincial(i)) THEN "Overdue" ELSE "DueToday"

PastDate(i) == HasDate(i) /\ DateOf(i) < BusinessDay(now)

NumberWithStatus(status) ==
    Cardinality({ i \in Classified : StatusOf(tally[i]) = status })

C6_ExactlyOneBucket ==
    ~BusinessSunday(now) =>
        /\ Len(tally) = Len(approvedOrders)
        /\ \A i \in Classified :
              tally[i].shipToday + tally[i].overdue
                 + tally[i].scheduled + tally[i].newOrders = 1

\* C6 as amended: on a non-Sunday every order is classified and is counted
\* in exactly one of shipToday, scheduled and newOrders; an Overdue order is
\* counted in overdue in addition to shipToday, and in overdue only then.
C6_OneBucketOverdueWithinShipToday ==
    ~BusinessSunday(now) =>
        /\ Len(tally) = Len(approvedOrders)
        /\ \A i \in Classified :
              /\ tally[i].shipToday \in {0, 1}
              /\ tally[i].overdue \in {0, 1}
              /\ tally[i].scheduled \in {0, 1}
              /\ tally[i].newOrders \in {0, 1}
              /\ tally[i].shipToday + tally[i].scheduled + tally[i].newOrders = 1
              /\ tally[i].overdue <= tally[i].shipToday
              /\ StatusOf(tally[i]) # "None"

\* an order without a delivery date approved before yesterday's cutoff:
\* reported in overdue and in shipToday
C6_Witness ==
    /\ ~BusinessSunday(now)
    /\ \E i \in Classified :
          /\ ~HasDate(i)
          /\ EffectiveApprovalInstant(approvedOrders[i]) < YesterdayCutoff(now, Provincial(i))
          /\ tally[i].overdue = 1
          /\ tally[i].shipToday = 1

\* C7: for every order and every now, isOverdue(order) is true exactly when
\* getTileCounts, at the same now, counts the order in overdue.
C7_IsOverdueAgreesWithTiles ==
    filterNow = now =>
        \A i \in DOMAIN approvedOrders :
           overdueFlags[i] <=> (i \in Classified /\ tally[i].overdue = 1)

\* C8: the effective approval instant is approved_at when it is present
\* and strictly later than created_at, and created_at otherwise.
C8_EffectiveApprovalInstant ==
    \A i \in DOMAIN approvedOrders :
       LET o == approvedOrders[i]
       IN  getEffectiveApprovalDate(o) =
              IF o.approved_at # Null /\ Val(o.approved_at) > o.created_at
              THEN Val(o.approved_at)
              ELSE o.created_at

\* an order whose approved_at is earlier than its created_at and before
\* yesterday's cutoff, while its created_at is not: reported DueToday
C8_Witness ==
    /\ ~BusinessSunday(now)
    /\ \E i \in Classified :
          LET o == approvedOrders[i]
          IN  /\ ~HasDate(i)
              /\ o.approved_at # Null
              /\ Val(o.approved_at) < o.created_at
              /\ Val(o.approved_at) < YesterdayCutoff(now, Provincial(i))
              /\ o.created_at >= YesterdayCutoff(now, Provincial(i))
              /\ StatusOf(tally[i]) = "DueToday"

\* C9: cutoffs are half-open: an effective approval instant equal to
\* yesterday's cutoff is DueToday, one equal to today's cutoff is
\* NewlyApproved, and an order with delivery date today evaluated at now
\* equal to today's cutoff is DueToday.
C9_HalfOpenCutoffs ==
    ~BusinessSunday(now) =>
        \A i \in Classified :
           LET eff == EffectiveApprovalInstant(approvedOrders[i])
           IN  /\ (~HasDate(i) /\ eff = YesterdayCutoff(now, Provincial(i)))
                     => StatusOf(tally[i]) = "DueToday"
               /\ (~HasDate(i) /\ eff = TodayCutoff(now, Provincial(i)))
                     => StatusOf(tally[i]) = "NewlyApproved"
               /\ (HasDate(i) /\ DateOf(i) = BusinessDay(now)
                      /\ now = TodayCutoff(now, Provincial(i)))
                     => StatusOf(tally[i]) = "DueToday"

\* C10: for every order list and every now, pending is shipToday +
\* scheduled + newOrders; the overdue count is not added to it.
C10_PendingSum ==
    tileCounts.pending =
       tileCounts.shipToday + tileCounts.scheduled + tileCounts.newOrders

\* a render that reports overdue orders and scheduled orders
C10_Witness ==
    /\ ~BusinessSunday(now)
    /\ tileCounts.overdue > 0
    /\ tileCounts.scheduled > 0
    /\ tileCounts.pending = Len(approvedOrders)

\* C11: on a non-Sunday, an order whose delivery date is after today's
\* business date is Scheduled: it adds 1 to scheduled and 0 to shipToday,
\* overdue and newOrders, whatever its timestamps are.
C11_FutureDateScheduled ==
    ~BusinessSunday(now) =>
        \A i \in Classified :
           (HasDate(i) /\ DateOf(i) > BusinessDay(now)) =>
              tally[i] = [shipToday |-> 0, overdue |-> 0, scheduled |-> 1, newOrders |-> 0]

\* C14 as stated: a metro order without a delivery date whose effective
\* approval instant is yesterday 14:00 business time, at a non-Sunday now
\* before today's 15:00 cutoff, is DueToday and adds 1 to shipToday and 1 to
\* pending.
ApprovedYesterday2PM(i) ==
    /\ ~HasDate(i)
    /\ ~Provincial(i)
    /\ EffectiveApprovalInstant(approvedOrders[i])
          = (BusinessDay(now) - 1) * Day + 14 * Hour - 8 * Hour
    /\ now < TodayCutoff(now, FALSE)

C14_Yesterday2PMDueToday ==
    ~BusinessSunday(now) =>
        \A i \in Classified :
           ApprovedYesterday2PM(i) =>
              /\ StatusOf(tally[i]) = "DueToday"
              /\ tally[i].shipToday = 1
              /\ Len(approvedOrders) = 1 => tileCounts.pending = 1

\* C14 as amended: such an order is Overdue (14:00 is before yesterday's
\* 15:00 cutoff): it adds 1 to overdue, 1 to shipToday and 1 to pending.
C14_Yesterday2PMOverdue ==
    ~BusinessSunday(now) =>
        /\ Len(tally) = Len(approvedOrders)
        /\ \A i \in DOMAIN approvedOrders :
              ApprovedYesterday2PM(i) =>
                 /\ StatusOf(tally[i]) = "Overdue"
                 /\ tally[i] = [shipToday |-> 1, overdue |-> 1, scheduled |-> 0, newOrders |-> 0]
                 /\ Len(approvedOrders) = 1 =>
                       /\ tileCounts.shipToday = 1
                       /\ tileCounts.overdue = 1
                       /\ tileCounts.pending = 1

\* the metro order approved yesterday 14:00, alone in the list, rendered
\* before today's cutoff
C14_Witness ==
    /\ ~BusinessSunday(now)
    /\ Len(approvedOrders) = 1
    /\ Len(tally) = 1
    /\ ApprovedYesterday2PM(1)
    /\ tileCounts.pending = 1

\* C16: the delivery date the code derives from a stored date YYYY-MM-DD is
\* that same calendar date, on every host offset, so the date counts as
\* today exactly when the stored date is today's business date.
C16_DeliveryDateIsStoredDate ==
    \A i \in DOMAIN approvedOrders :
       HasDate(i) =>
          localDay(deliveryDateOnlyOf(DateOf(i), hostOffset), hostOffset) = DateOf(i)

\* C19: an order without a delivery date whose effective approval instant
\* is before 3:00 PM business time on a Monday-Saturday is counted in Ship
\* Today for the rest of that day, metro and provincial alike.
C19_ApprovedBefore3PMShipsToday ==
    ~BusinessSunday(now) =>
        \A i \in Classified :
           LET eff == EffectiveApprovalInstant(approvedOrders[i])
           IN  (/\ ~HasDate(i)
                /\ BusinessDay(eff) = BusinessDay(now)
                /\ eff < BusinessDay(now) * Day + 15 * Hour - 8 * Hour
                /\ eff <= now)
                  => tally[i].shipToday = 1

\* C12: getTileCounts and isOverdue evaluated for the same render use the
\* same now, so that one render classifies every order at one instant: on a
\* non-Sunday, isOverdue flags an order exactly when the tiles count it in
\* overdue.
C12_OneClockPerRender ==
    ~BusinessSunday(now) =>
        \A i \in Classified : overdueFlags[i] <=> tally[i].overdue = 1

\* C13: an order with neither a valid created_at nor a valid approved_at is
\* rejected and is counted in none of shipToday, overdue, scheduled,
\* newOrders and pending.
Malformed(o) ==
    /\ o.created_at = InvalidDate
    /\ o.approved_at = Null \/ Val(o.approved_at) = InvalidDate

C13_MalformedOrderNotCounted ==
    ~BusinessSunday(now) =>
        /\ \A i \in Classified :
              Malformed(approvedOrders[i]) => tally[i] = NoIncrement
        /\ tileCounts.pending
              <= Cardinality({ i \in DOMAIN approvedOrders : ~Malformed(approvedOrders[i]) })

\* C15: the status of an order with a delivery date, and what it adds to
\* every count, depend only on (delivery date, is_provincial, now): the
\* order is classified as the order with the same date and destination class
\* and other timestamps (no approved_at, the earliest created_at) is.
SameDateOtherTimestamps(o) ==
    [o EXCEPT !.approved_at = Null, !.created_at = EarliestInstant]

C15_DateOverridesTimestamps ==
    \A i \in DOMAIN approvedOrders :
       HasDate(i) =>
          LET other == SameDateOtherTimestamps(approvedOrders[i])
          IN  /\ i \in Classified =>
                    tally[i] = loopIteration(other, toPHT(now, hostOffset), hostOffset)
              /\ overdueFlags[i] = isOverdue(other, filterNow, hostOffset)

\* an order with a future delivery date, an approved_at and a later
\* created_at, whose effective approval instant is before yesterday's
\* cutoff: reported Scheduled
C15_Witness ==
    /\ ~BusinessSunday(now)
    /\ \E i \in Classified :
          /\ HasDate(i)
          /\ approvedOrders[i].approved_at # Null
          /\ approvedOrders[i].created_at # EarliestInstant
          /\ EffectiveApprovalInstant(approvedOrders[i]) < YesterdayCutoff(now, Provincial(i))
          /\ StatusOf(tally[i]) = "Scheduled"
          /\ ~overdueFlags[i]

----------------------------------------------------------------------------
(* The handlers' statements, on the raw upstream data *)

\* C17: with CRON_SECRET set, a cron request whose Authorization header is
\* not exactly 'Bearer <CRON_SECRET>' is answered 401 and causes no Shopify
\* request and no mail call; with CRON_SECRET unset (or empty) no request is
\* answered 401.
SecretSet == env.CRON_SECRET # Null /\ Val(env.CRON_SECRET) # << >>

ExactHeader == Some(<< "B", "e", "a", "r", "e", "r", " " >> \o Val(env.CRON_SECRET))

C17_CronSecretCheck ==
    cron.handler # "none" =>
        /\ (SecretSet /\ cron.authorization # ExactHeader) =>
              /\ cron.status = 401
              /\ cron.shopifyRequests = 0
              /\ cron.mailCalls = 0
        /\ ~SecretSet => cron.status # 401

\* the fulfillment cron, secret set, request without Authorization header
C17_Witness ==
    /\ SecretSet
    /\ cron.handler = "fulfillment"
    /\ cron.authorization = Null
    /\ cron.status = 401
    /\ cron.mailCalls = 0

\* C18: the async orders cron calls the mail API at most once, and only if a
\* fetched order carries the 'async' tag; once the orders are fetched, with
\* none tagged it answers orderCount 0 without a mail call, with one or more
\* it makes exactly one mail call.
AsyncTagged ==
    { Some(<< "a", "s", "y", "n", "c" >>),
      Some(<< "A", "s", "y", "n", "c", ",", " ", "r", "x" >>),
      Some(<< "r", "x", ",", " ", "A", "S", "Y", "N", "C", " " >>) }

AsyncOrderCount ==
    Cardinality({ i \in DOMAIN shopify.restOrders : shopify.restOrders[i].tags \in AsyncTagged })

OrdersFetched == cron.shopifyRequests = 1 /\ shopify.restOk

C18_MailOnlyForAsyncOrders ==
    cron.handler = "async-orders" =>
        /\ cron.mailCalls <= 1
        /\ cron.mailCalls = 1 => AsyncOrderCount >= 1
        /\ (OrdersFetched /\ AsyncOrderCount = 0) =>
              /\ cron.mailCalls = 0
              /\ cron.status = 200
              /\ Val(cron.body).orderCount = 0
        /\ (OrdersFetched /\ AsyncOrderCount >= 1) => cron.mailCalls = 1

\* orders were fetched, none of them tagged async (one tagged
\* 'asynchronous'): no mail call, orderCount 0
C18_Witness ==
    /\ cron.handler = "async-orders"
    /\ OrdersFetched
    /\ Len(shopify.restOrders) > 0
    /\ \E i \in DOMAIN shopify.restOrders :
          shopify.restOrders[i].tags
             = Some(<< "a", "s", "y", "n", "c", "h", "r", "o", "n", "o", "u", "s" >>)
    /\ AsyncOrderCount = 0
    /\ cron.mailCalls = 0
    /\ Val(cron.body).orderCount = 0

\* C20: in a /api/orders response the approved and notApproved lists are
\* disjoint; an upstream order is in approved iff its flag is true and it
\* has no keevtest discount code, in notApproved iff its flag is false, its
\* prescription status is not on hold and it has no keevtest code; no order
\* of notApproved has an approved_at; each summary.count is the length of
\* its list.
FlagTrueSpellings ==
    { << "t", "r", "u", "e" >>, << "T", "R", "U", "E" >>, << "1" >>,
      << "y", "e", "s" >>, << "Y", "e", "s" >> }

FlagFalseSpellings ==
    { << "f", "a", "l", "s", "e" >>, << "F", "a", "l", "s", "e" >>, << "0" >>, << "n", "o" >> }

FlagOf(node) ==
    IF node.metafield # Null /\ Val(node.metafield).value \in FlagTrueSpellings THEN "true"
    ELSE IF node.metafield # Null /\ Val(node.metafield).value \in FlagFalseSpellings THEN "false"
    ELSE "blank"

CarriesKeevtest(node) ==
    \E i \in DOMAIN node.discountCodes :
       node.discountCodes[i] = << "K", "e", "e", "v", "T", "e", "s", "t", "5" >>

OnHold(node) ==
    node.prescriptionStatus
       \in { Some(<< "O", "n", " ", "H", "o", "l", "d" >>),
             Some(<< "r", "x", "_", "o", "n", "_", "h", "o", "l", "d" >>) }

FetchedNodes ==
    UNION { { shopify.pages[k].edges[j] : j \in DOMAIN shopify.pages[k].edges } :
               k \in DOMAIN shopify.pages }

IdsOf(orders) == { orders[i].id : i \in DOMAIN orders }

Responded200 == api.pc = "responded" /\ Val(api.response).status = 200

C20_ApprovedNotApprovedPartition ==
    Responded200 =>
        LET approved == Val(Val(api.response).approved)
            notApproved == Val(Val(api.response).notApproved)
        IN  /\ IdsOf(approved.orders) \cap IdsOf(notApproved.orders) = {}
            /\ \A n \in FetchedNodes :
                  /\ n.id \in IdsOf(approved.orders)
                        <=> (FlagOf(n) = "true" /\ ~CarriesKeevtest(n))
                  /\ n.id \in IdsOf(notApproved.orders)
                        <=> (FlagOf(n) = "false" /\ ~OnHold(n) /\ ~CarriesKeevtest(n))
            /\ IdsOf(approved.orders) \cup IdsOf(notApproved.orders)
                  \subseteq { n.id : n \in FetchedNodes }
            /\ \A i \in DOMAIN notApproved.orders : notApproved.orders[i].approved_at = Null
            /\ approved.summary.count = Len(approved.orders)
            /\ approved.summary.count = Cardinality(IdsOf(approved.orders))
            /\ notApproved.summary.count = Len(notApproved.orders)
            /\ notApproved.summary.count = Cardinality(IdsOf(notApproved.orders))

\* a response with an approved order, while an upstream order flagged false
\* is on hold and in neither list
C20_Witness ==
    /\ Responded200
    /\ Val(Val(api.response).approved).summary.count = 1
    /\ \E n \in FetchedNodes :
          /\ FlagOf(n) = "false"
          /\ OnHold(n)
          /\ n.id \notin IdsOf(Val(Val(api.response).notApproved).orders)

\* C25: on a non-Sunday every approved order is counted in exactly one of
\* shipToday, scheduled and newOrders, and the pending tile equals the
\* number of approved orders.
C25_PendingIsNumberOfOrders ==
    ~BusinessSunday(now) =>
        /\ \A i \in DOMAIN approvedOrders :
              /\ i \in Classified
              /\ Cardinality({ f \in {"shipToday", "scheduled", "newOrders"} :
                                  tally[i][f] = 1 }) = 1
              /\ \A f \in {"shipToday", "scheduled", "newOrders"} : tally[i][f] \in {0, 1}
        /\ tileCounts.pending = Len(approvedOrders)

\* two orders rendered on a non-Sunday, one of them counted in overdue too:
\* pending is 2
C25_Witness ==
    /\ ~BusinessSunday(now)
    /\ Len(approvedOrders) = 2
    /\ tileCounts.overdue = 1
    /\ tileCounts.pending = 2

\* C21: for the same upstream orders, the fulfillment cron report has the
\* approved and not-approved orders /api/orders returns, in the same number,
\* each with the preferred delivery date /api/orders gives it.
ReportedOrders == Val(cron.report).approved \o Val(cron.report).notApproved

ApiAnswer == ordersResponse(cronPaginate(shopify.pages, Null, << >>, 0).allOrders)

ApiOrders == Val(ApiAnswer.approved).orders \o Val(ApiAnswer.notApproved).orders

ReportSent == cron.handler = "fulfillment" /\ cron.status = 200

C21_ReportEqualsApiOrders ==
    ReportSent =>
        /\ IdsOf(Val(cron.report).approved) = IdsOf(Val(ApiAnswer.approved).orders)
        /\ IdsOf(Val(cron.report).notApproved) = IdsOf(Val(ApiAnswer.notApproved).orders)
        /\ Val(cron.body).approvedOrderCount = Val(ApiAnswer.approved).summary.count
        /\ Val(cron.body).notApprovedOrderCount = Val(ApiAnswer.notApproved).summary.count
        /\ \A i \in DOMAIN ReportedOrders : \A j \in DOMAIN ApiOrders :
              ReportedOrders[i].id = ApiOrders[j].id =>
                 ReportedOrders[i].preferred_delivery_date
                    = ApiOrders[j].preferred_delivery_date

\* C22: the pagination loop of /api/orders requests the first page and then
\* the page after the previous endCursor, requests no page twice, ends with
\* the first page that has no next page, having appended the pages up to it
\* once and in order, and has ended by the time it has made as many
\* requests as there are pages.
RECURSIVE ConcatEdges(_, _)
ConcatEdges(pages, m) ==
    IF m = 0 THEN << >> ELSE ConcatEdges(pages, m - 1) \o pages[m].edges

C22_EveryPageOnceInOrder ==
    LET r == api.requested
        pages == shopify.pages
    IN  /\ \A i \in DOMAIN r : \A j \in DOMAIN r : i < j => r[i] # r[j]
        /\ Len(r) <= Len(pages)
        /\ \A k \in DOMAIN r :
              r[k] = IF k = 1 THEN Null ELSE pages[k - 1].endCursor
        /\ api.pc = "paginating" => Len(r) < Len(pages)
        /\ Responded200 =>
              /\ ~pages[Len(r)].hasNextPage
              /\ \A j \in 1..(Len(r) - 1) : pages[j].hasNextPage
              /\ api.allOrders = ConcatEdges(pages, Len(r))

\* C23: a /api/orders request is answered once: with a 400 and without any
\* upstream request when SHOPIFY_STORE_URL or SHOPIFY_ACCESS_TOKEN is
\* missing; with the upstream status when a page is not OK, with a 400 when a
\* page has GraphQL errors, with a 500 when an exception is thrown, and in
\* these cases without order data; and it is answered by the time it has
\* made as many upstream requests as there are pages.
ApiMisconfigured == env.SHOPIFY_STORE_URL = Null \/ env.SHOPIFY_ACCESS_TOKEN = Null

LastRequestedPage == pageAfter(shopify.pages, api.requested[Len(api.requested)])

NoOrderData(response) == response.approved = Null /\ response.notApproved = Null

C23_OneResponsePerRequest ==
    /\ api.pc = "responded" <=> api.response # Null
    /\ api.pc = "paginating" => Len(api.requested) < Len(shopify.pages)
    /\ api.pc = "responded" =>
          LET response == Val(api.response)
          IN  /\ ApiMisconfigured =>
                    response.status = 400 /\ api.requested = << >> /\ NoOrderData(response)
              /\ ~ApiMisconfigured => api.requested # << >>
              /\ api.threw => response.status = 500 /\ NoOrderData(response)
              /\ (~ApiMisconfigured /\ ~api.threw /\ ~LastRequestedPage.ok) =>
                    response.status = LastRequestedPage.status /\ NoOrderData(response)
              /\ (~ApiMisconfigured /\ ~api.threw /\ LastRequestedPage.ok
                     /\ LastRequestedPage.errors) =>
                    response.status = 400 /\ NoOrderData(response)
              /\ response.status = 200 =>
                    /\ ~ApiMisconfigured /\ ~api.threw
                    /\ \A k \in DOMAIN api.requested :
                          LET page == pageAfter(shopify.pages, api.requested[k])
                          IN  page.ok /\ ~page.errors

\* C24: /api/send-email answers success: true only after the mail API
\* accepted the message; it calls the mail API at most once per request, and
\* not at all when the Shopify or mail configuration is missing or the
\* Shopify fetch failed; when the mail call throws or is answered non-OK it
\* answers 500 without success.
EmailMisconfigured ==
    \/ env.SHOPIFY_STORE_URL = Null
    \/ env.SHOPIFY_ACCESS_TOKEN = Null
    \/ env.AGENTMAIL_API_KEY = Null

ShopifyFetchFailed ==
    \/ email.shopifyThrew
    \/ ~shopify.pages[1].ok
    \/ shopify.pages[1].errors

C24_SuccessOnlyAfterMailAccepted ==
    email.status # 0 =>
        /\ email.body.success =>
              /\ email.status = 200
              /\ email.mailCalls = 1
              /\ mailOk /\ ~email.mailThrew
        /\ email.mailCalls <= 1
        /\ (EmailMisconfigured \/ ShopifyFetchFailed) => email.mailCalls = 0
        /\ (email.mailCalls = 1 /\ (email.mailThrew \/ ~mailOk)) =>
              email.status = 500 /\ ~email.body.success

\* a request whose mail call was answered non-OK: 500, no success
C24_Witness ==
    /\ email.mailCalls = 1
    /\ ~mailOk
    /\ ~email.mailThrew
    /\ email.status = 500
    /\ ~email.body.success

====
